---- MODULE Spec2Model ----
(***************************************************************************)
(* Model of weather_fetcher.py: the lru_cache'd fetch_weather, the         *)
(* foreground WeatherFetcherThread workers, the WeatherApp slots and the   *)
(* periodic_fetcher loop.                                                  *)
(*                                                                         *)
(* Text is modelled as a sequence of chunks (a rope): a literal of the     *)
(* source is one chunk, a formatted number is one chunk per character,     *)
(* and an f-string is the concatenation of its parts.                      *)
(***************************************************************************)
EXTENDS Integers, Sequences, FiniteSets, TLC

VARIABLES
    cache,          \* lru_cache of fetch_weather: entries, least recently used first
    cacheKeys,      \* the keys of the lru_cache's dict, in the order of their insertion
    threads,        \* the WeatherFetcherThread objects alive, by number of the click
                    \* that created them
    thread,         \* WeatherApp.thread: the latest worker created (0: none yet)
    city_input,     \* text of the QLineEdit at the latest click
    clicks,         \* number of button clicks handled
    result_label,   \* text of WeatherApp.result_label
    labelWriter,    \* execution context of the latest setText on result_label
    labelFrom,      \* the worker whose reply result_label shows, 0 if none
    uiQueue,        \* queued signal deliveries posted to the UI thread's event loop
    periodic        \* the periodic_fetcher thread, with the lines it has written to
                    \* stdout in the current iteration of its loop

vars == <<cache, cacheKeys, threads, thread, city_input, clicks, result_label, labelWriter, labelFrom,
          uiQueue, periodic>>

----------------------------------------------------------------------------
(* Bounds of the model *)

\* Spec: button clicks explored, and foreground workers that may be in flight
\* (created, reply not yet handled by the UI) at once
MaxClicks == 2
MaxInFlight == 2
\* SeqSpec: button clicks explored when the user waits for each reply before
\* the next fetch, which is what it takes to fill the cache
MaxSeqClicks == 5

\* a timed run is followed up to this time, in tenths of a second
MaxNow == 30

\* the intervals of the timed runs, in seconds
TestIntervals == {1, 2}

(* Program constants *)

\* @lru_cache(maxsize=5)
maxsize == 5
\* periodic_fetcher("Saskatoon", interval=300)
interval == 300

PeriodicCity == "Saskatoon"

\* cities the user types, in the order in which they are first typed
Cities == <<"Regina", "Toronto", "Ottawa", "Calgary", "Halifax">>

\* what the input may hold at click number k: nothing, the city of the
\* periodic worker, or one of the first k cities (city names other than
\* these two are interchangeable, so the order of first use is fixed)
Inputs(k) == {"", PeriodicCity} \cup { Cities[i] : i \in 1..(IF k < Len(Cities) THEN k ELSE Len(Cities)) }

----------------------------------------------------------------------------
(* Text *)

Digit(d) == CASE d = 0 -> "0" [] d = 1 -> "1" [] d = 2 -> "2" [] d = 3 -> "3"
              [] d = 4 -> "4" [] d = 5 -> "5" [] d = 6 -> "6" [] d = 7 -> "7"
              [] d = 8 -> "8" [] d = 9 -> "9"

RECURSIVE Digits(_)
Digits(n) == IF n < 10 THEN <<Digit(n)>> ELSE Digits(n \div 10) \o <<Digit(n % 10)>>

\* str() of a Python int
StrInt(i) == IF i < 0 THEN <<"-">> \o Digits(-i) ELSE Digits(i)

\* A JSON number: [kind |-> "int", n |-> value] or
\* [kind |-> "float", n |-> value in tenths].  str() of a Python float with
\* one decimal place always shows the fraction digit ("21.0").
StrNum(x) ==
    IF x.kind = "int" THEN StrInt(x.n)
    ELSE LET a == IF x.n < 0 THEN -x.n ELSE x.n
         IN  (IF x.n < 0 THEN <<"-">> ELSE <<>>) \o Digits(a \div 10) \o <<".">>
             \o <<Digit(a % 10)>>

Contains(s, sub) ==
    \E i \in 1..(Len(s) - Len(sub) + 1) : SubSeq(s, i, i + Len(sub) - 1) = sub

----------------------------------------------------------------------------
(* The provider and the HTTP client (requests.get) *)

\* main.temp is a JSON number, main.humidity a JSON integer
Conditions ==
    { [description |-> "clear sky",  temp |-> [kind |-> "float", n |-> 215], humidity |-> 40],
      [description |-> "light snow", temp |-> [kind |-> "int",   n |-> -3],  humidity |-> 85] }

\* response.json(): the provider's payload; "name" stands for the fields of
\* the payload beyond the three that are displayed
Payload(city, c) ==
    [name    |-> city,
     weather |-> <<[description |-> c.description]>>,
     main    |-> [temp |-> c.temp, humidity |-> c.humidity]]

NoPayload == <<>>

TimeoutText == <<"HTTPSConnectionPool(host='api.openweathermap.org', port=443): Read timed out. (read timeout=5)">>
ConnectionText == <<"HTTPSConnectionPool(host='api.openweathermap.org', port=443): Max retries exceeded">>

\* every way requests.get(url, timeout=5) can end for a city: a response
\* (status 200 with a payload, or another status with a body), or an
\* exception (timeout, connection failure)
Outcomes(city) ==
    { [kind |-> "response", status_code |-> 200, text |-> "", json |-> <<Payload(city, c)>>]
        : c \in Conditions }
    \cup
    { [kind |-> "response", status_code |-> 404, text |-> "city not found", json |-> NoPayload],
      [kind |-> "response", status_code |-> 203, text |-> "partial data", json |-> NoPayload],
      [kind |-> "timeout", status_code |-> 0, text |-> "", json |-> NoPayload],
      [kind |-> "connection", status_code |-> 0, text |-> "", json |-> NoPayload] }

\* (mutant) the message without the body
ApiErrorTextNoBody(status_code, text) == <<"API Error: ">> \o StrInt(status_code)

\* f"API Error: {response.status_code} - {response.text}"
ApiErrorText(status_code, text) ==
    <<"API Error: ">> \o StrInt(status_code) \o <<" - ", text>>

\* fetch_weather's body, once requests.get has ended with outcome o: the
\* value returned (data) or the message of the exception raised (error)
FetchBody(o) ==
    CASE o.kind = "timeout"    -> [ok |-> FALSE, data |-> NoPayload, error |-> TimeoutText]
      [] o.kind = "connection" -> [ok |-> FALSE, data |-> NoPayload, error |-> ConnectionText]
      [] OTHER ->
            IF o.status_code # 200
            THEN [ok |-> FALSE, data |-> NoPayload,
                  error |-> ApiErrorText(o.status_code, o.text)]
            ELSE [ok |-> TRUE, data |-> o.json, error |-> <<>>]

----------------------------------------------------------------------------
(* functools.lru_cache(maxsize=5) around fetch_weather *)

CacheCities(c) == { c[i].city : i \in 1..Len(c) }

CacheHas(c, city) == city \in CacheCities(c)

CacheIndex(c, city) == CHOOSE i \in 1..Len(c) : c[i].city = city

\* (mutant) the value of the first entry, whatever its key
CacheGetFirst(c, city) == c[1].data

CacheGet(c, city) == c[CacheIndex(c, city)].data

Without(c, i) == SubSeq(c, 1, i - 1) \o SubSeq(c, i + 1, Len(c))

\* a hit moves the entry to the most recently used end
\* (mutant) a hit that leaves the order of the entries alone
LruTouchNone(c, city) == c

LruTouch(c, city) ==
    LET i == CacheIndex(c, city) IN Without(c, i) \o <<c[i]>>

\* (mutant) a store that does not look whether the key has been added
LruStoreAgain(c, city, data) ==
    IF Len(c) >= maxsize THEN Tail(c) \o <<[city |-> city, data |-> data]>>
    ELSE Append(c, [city |-> city, data |-> data])

\* (mutant) a store that never makes room
LruStoreNoEvict(c, city, data) ==
    IF CacheHas(c, city) THEN c ELSE Append(c, [city |-> city, data |-> data])

\* storing the result of a miss: nothing if the key was added while the
\* call ran; else the least recently used entry makes room when full
LruStore(c, city, data) ==
    IF CacheHas(c, city) THEN c
    ELSE IF Len(c) >= maxsize THEN Tail(c) \o <<[city |-> city, data |-> data]>>
    ELSE Append(c, [city |-> city, data |-> data])

\* A call of fetch_weather in progress (one per thread):
\*   pc       "lookup": about to look the key up;  "request": missed, about
\*            to call the body;  "returned": the call has ended
\*   requests HTTP requests issued by the call
\*   response how the request ended: kind ("none" before any request),
\*            status code and body
\*   ok/data/error  how the call ended
NoResponse == [kind |-> "none", status_code |-> 0, text |-> ""]

NewCall ==
    [pc |-> "lookup", requests |-> 0, response |-> NoResponse,
     ok |-> FALSE, data |-> NoPayload, error |-> <<>>]

\* the cache lookup of a call: a hit returns the stored value at once
CallLookup(call, c, city) ==
    IF CacheHas(c, city)
    THEN [call EXCEPT !.pc = "returned", !.ok = TRUE, !.data = CacheGet(c, city)]
    ELSE [call EXCEPT !.pc = "request"]

\* (mutant) an entry that is dropped when it is read, as if it had expired
CacheAfterLookupExpire(c, city) ==
    IF CacheHas(c, city) THEN Without(c, CacheIndex(c, city)) ELSE c

CacheAfterLookup(c, city) == IF CacheHas(c, city) THEN LruTouch(c, city) ELSE c

\* (mutant) a second request after a failed one
CallBodyRetry(call, o) ==
    LET r == FetchBody(o)
    IN  [call EXCEPT !.pc = "returned", !.requests = IF r.ok THEN @ + 1 ELSE @ + 2,
                     !.response = [kind |-> o.kind, status_code |-> o.status_code,
                                   text |-> o.text],
                     !.ok = r.ok, !.data = r.data, !.error = r.error]

\* the body of fetch_weather on a miss: one HTTP request ending with outcome o,
\* then the return or the raise
CallBody(call, o) ==
    LET r == FetchBody(o)
    IN  [call EXCEPT !.pc = "returned", !.requests = @ + 1,
                     !.response = [kind |-> o.kind, status_code |-> o.status_code,
                                   text |-> o.text],
                     !.ok = r.ok, !.data = r.data, !.error = r.error]

\* (mutant) room is made in a full cache before the outcome is known
CacheAfterBodyMakesRoom(c, city, call) ==
    IF call.ok THEN LruStore(c, city, call.data)
    ELSE IF Len(c) >= maxsize /\ ~CacheHas(c, city) THEN Tail(c) ELSE c

\* only a returned value is stored; an exception leaves the cache alone
CacheAfterBody(c, city, call) ==
    IF call.ok THEN LruStore(c, city, call.data) ELSE c

\* the dict of the cache after a store: the key of the entry that made room
\* is deleted, the new key is added last
KeysAfterStore(keys, c, city) ==
    IF CacheHas(c, city) THEN keys
    ELSE IF Len(c) >= maxsize
         THEN SelectSeq(keys, LAMBDA k : k # c[1].city) \o <<city>>
         ELSE Append(keys, city)

KeysAfterBody(keys, c, city, call) ==
    IF call.ok THEN KeysAfterStore(keys, c, city) ELSE keys

----------------------------------------------------------------------------
(* WeatherApp: the slots *)

PromptText == <<"Please enter a city name.">>
FetchingText == <<"Fetching weather...">>

\* (mutant) temperature and humidity swapped
WeatherTextSwapped(data) ==
    LET weather  == data.weather[1].description
        temp     == data.main.temp
        humidity == data.main.humidity
    IN  <<"Weather: ", weather, "\nTemperature: ">> \o StrInt(humidity)
        \o <<"°C\nHumidity: ">> \o StrNum(temp) \o <<"%">>

\* display_weather: the text set on result_label for a payload
WeatherText(data) ==
    LET weather  == data.weather[1].description
        temp     == data.main.temp
        humidity == data.main.humidity
    IN  <<"Weather: ", weather, "\nTemperature: ">> \o StrNum(temp)
        \o <<"°C\nHumidity: ">> \o StrInt(humidity) \o <<"%">>

\* display_error: the text set on result_label for an error message
\* (mutant) the bare message of the exception
ErrorTextBare(error) == error

ErrorText(error) == <<"Error: ">> \o error

\* (mutant) display_error leaves the placeholder in the label
SlotTextDropsError(sig) ==
    IF sig.signal = "weather_fetched" THEN WeatherText(sig.arg[1]) ELSE FetchingText

\* the text the slot connected to a signal sets on result_label
SlotText(sig) ==
    IF sig.signal = "weather_fetched" THEN WeatherText(sig.arg[1]) ELSE ErrorText(sig.arg)

NewThread(city) ==
    [city |-> city, call |-> NewCall, finished |-> FALSE,
     weather_fetched |-> 0, error_occurred |-> 0]

InFlight == Cardinality(DOMAIN threads)

\* (mutant) the slot without the early return on an empty input
ClickNoReturn(city) ==
    /\ clicks' = clicks + 1
    /\ city_input' = city
    /\ labelWriter' = "ui"
    /\ labelFrom' = 0
    /\ result_label' = FetchingText
    /\ threads' = threads @@ ((clicks + 1) :> NewThread(city))
    /\ thread' = clicks + 1
    /\ UNCHANGED <<cache, cacheKeys, uiQueue, periodic>>

\* (mutant) a new fetch replaces the workers still in flight
ClickCancelsEarlier(city) ==
    /\ clicks' = clicks + 1
    /\ city_input' = city
    /\ labelWriter' = "ui"
    /\ labelFrom' = 0
    /\ IF city = ""
       THEN /\ result_label' = PromptText
            /\ UNCHANGED <<threads, thread, uiQueue>>
       ELSE /\ result_label' = FetchingText
            /\ threads' = ((clicks + 1) :> NewThread(city))
            /\ thread' = clicks + 1
            /\ uiQueue' = <<>>
    /\ UNCHANGED <<cache, cacheKeys, periodic>>

\* WeatherApp.fetch_weather, the slot of the button, with `city` in the input.
\* self.thread is overwritten without regard to a worker still running; that
\* worker is taken to run on to the end of run().
Click(city) ==
    /\ clicks' = clicks + 1
    /\ city_input' = city
    /\ labelWriter' = "ui"
    /\ labelFrom' = 0
    /\ IF city = ""
       THEN /\ result_label' = PromptText
            /\ UNCHANGED <<threads, thread>>
       ELSE /\ result_label' = FetchingText
            /\ threads' = threads @@ ((clicks + 1) :> NewThread(city))
            /\ thread' = clicks + 1
    /\ UNCHANGED <<cache, cacheKeys, uiQueue, periodic>>

\* the UI thread's event loop runs the slot connected to the queued signal
Deliver ==
    /\ uiQueue # <<>>
    /\ result_label' = SlotText(Head(uiQueue))
    /\ labelWriter' = "ui"
    /\ labelFrom' = Head(uiQueue).sender
    /\ uiQueue' = Tail(uiQueue)
    \* a finished worker whose last signal has been handled is released
    /\ LET w == Head(uiQueue).sender
           pending == { uiQueue[i].sender : i \in 2..Len(uiQueue) }
       IN  threads' = IF w \in pending THEN threads
                      ELSE [v \in DOMAIN threads \ {w} |-> threads[v]]
    /\ UNCHANGED <<cache, cacheKeys, thread, city_input, clicks, periodic>>

----------------------------------------------------------------------------
(* WeatherFetcherThread.run *)

\* (mutant) a failure is swallowed without a signal
RunSignalsSilentError(call) ==
    IF call.ok THEN <<[signal |-> "weather_fetched", arg |-> call.data]>> ELSE <<>>

\* the signals run() emits for a call that ended
RunSignals(call) ==
    IF call.ok THEN <<[signal |-> "weather_fetched", arg |-> call.data]>>
    ELSE <<[signal |-> "error_occurred", arg |-> call.error]>>

CountSignal(sigs, name) == Cardinality({ i \in 1..Len(sigs) : sigs[i].signal = name })

Posted(w, sigs) ==
    [i \in 1..Len(sigs) |-> [sender |-> w, signal |-> sigs[i].signal, arg |-> sigs[i].arg]]

\* (mutant) every slot runs in the emitting thread
ConnectionTypeDirect(emitter, receiver) == "direct"

\* connect() without a type is Qt.AutoConnection: the slot runs at once in the
\* emitting thread if the receiver lives in it, and is queued to the
\* receiver's thread otherwise
ConnectionType(emitter, receiver) == IF emitter = receiver THEN "direct" ELSE "queued"

\* emit of `sigs` by worker w to the WeatherApp, which lives in the UI thread
Emit(w, sigs) ==
    IF sigs = <<>> \/ ConnectionType("worker", "ui") = "queued"
    THEN /\ uiQueue' = uiQueue \o Posted(w, sigs)
         /\ UNCHANGED <<result_label, labelWriter, labelFrom>>
    ELSE /\ result_label' = SlotText(sigs[Len(sigs)])
         /\ labelWriter' = "worker"
         /\ labelFrom' = w
         /\ UNCHANGED uiQueue

\* the rest of run() once fetch_weather has ended: emit, and the thread is done
Finish(t, call) ==
    LET sigs == RunSignals(call)
    IN  [t EXCEPT !.call = call, !.finished = TRUE,
                  !.weather_fetched = @ + CountSignal(sigs, "weather_fetched"),
                  !.error_occurred = @ + CountSignal(sigs, "error_occurred")]

\* run() up to the cache lookup; on a hit fetch_weather returns at once and
\* run() emits
WorkerLookup(w) ==
    /\ w \in DOMAIN threads
    /\ ~threads[w].finished
    /\ threads[w].call.pc = "lookup"
    /\ LET call == CallLookup(threads[w].call, cache, threads[w].city)
       IN  IF call.pc = "returned"
           THEN /\ threads' = [threads EXCEPT ![w] = Finish(@, call)]
                /\ Emit(w, RunSignals(call))
           ELSE /\ threads' = [threads EXCEPT ![w].call = call]
                /\ UNCHANGED <<uiQueue, result_label, labelWriter, labelFrom>>
    /\ cache' = CacheAfterLookup(cache, threads[w].city)
    /\ UNCHANGED cacheKeys
    /\ UNCHANGED <<thread, city_input, clicks, periodic>>

\* the body of fetch_weather after a miss, the store of its result, and the
\* emit of run()
WorkerRequest(w) ==
    /\ w \in DOMAIN threads
    /\ ~threads[w].finished
    /\ threads[w].call.pc = "request"
    /\ \E o \in Outcomes(threads[w].city) :
          LET call == CallBody(threads[w].call, o)
          IN  /\ threads' = [threads EXCEPT ![w] = Finish(@, call)]
              /\ cache' = CacheAfterBody(cache, threads[w].city, call)
              /\ cacheKeys' = KeysAfterBody(cacheKeys, cache, threads[w].city, call)
              /\ Emit(w, RunSignals(call))
    /\ UNCHANGED <<thread, city_input, clicks, periodic>>

----------------------------------------------------------------------------
(* periodic_fetcher.fetch: the loop of the daemon thread *)

\* repr of the payload dict, as print formats it
PayloadRepr(data) ==
    <<"{'weather': [{'description': '", data.weather[1].description,
      "'}], 'main': {'temp': ">> \o StrNum(data.main.temp)
      \o <<", 'humidity': ">> \o StrInt(data.main.humidity)
      \o <<"}, 'name': '", data.name, "'}">>

\* (mutant) an error is not printed
PeriodicLinesSilentError(call) ==
    IF call.ok THEN << <<"Periodic Weather Update: ">> \o PayloadRepr(call.data[1]) >>
    ELSE << >>

\* the lines one iteration prints once fetch_weather has ended
PeriodicLines(call) ==
    IF call.ok THEN << <<"Periodic Weather Update: ">> \o PayloadRepr(call.data[1]) >>
    ELSE << <<"Periodic Fetch Error: ">> \o call.error >>

\* The stopwatch of the periodic thread, in tenths of a second from the start
\* of the thread; it runs only where a run is timed (TimedSpec):
\*   now       the time
\*   attempts  calls of fetch_weather begun so far
\*   ended     the time the latest call of fetch_weather ended
NewTimer(on) == [on |-> on, now |-> 0, attempts |-> 0, ended |-> 0]

\* a call of fetch_weather takes less than half a second
FetchTenths == 0..4

Elapsed(p) == IF p.timer.on THEN FetchTenths ELSE {0}

\* the loop calls fetch_weather
Attempted(t) == IF t.on THEN [t EXCEPT !.attempts = @ + 1] ELSE t

\* fetch_weather has ended, returning or raising, d tenths after its call
FetchEnded(t, d) == IF t.on THEN [t EXCEPT !.now = @ + d, !.ended = t.now + d] ELSE t

\* time.sleep(secs) has returned
Slept(t, secs) == IF t.on THEN [t EXCEPT !.now = @ + 10 * secs] ELSE t

\* (mutant) a sleep of twice the interval
SleepTimeDouble(p, call) == 2 * p.interval

\* the argument of time.sleep after an iteration
SleepTime(p, call) == p.interval

\* (mutant) the exception of a failed fetch ends the thread
PrintedUncaught(p, call) ==
    IF call.ok
    THEN [p EXCEPT !.pc = "sleep", !.call = call,
                   !.printed = @ \o PeriodicLines(call),
                   !.sleeping = SleepTime(p, call)]
    ELSE [p EXCEPT !.pc = "dead", !.call = call]

\* the rest of the iteration once fetch_weather has ended: print, then sleep
Printed(p, call) ==
    [p EXCEPT !.pc = "sleep", !.call = call,
              !.printed = @ \o PeriodicLines(call),
              !.sleeping = SleepTime(p, call)]

\* the thread periodic_fetcher(city, interval=secs) starts, at the top of
\* its loop
NewPeriodic(secs, timed) ==
    [pc |-> "fetch", call |-> NewCall, printed |-> <<>>, sleeping |-> 0,
     interval |-> secs, timer |-> NewTimer(timed)]

PeriodicLookup ==
    /\ periodic.pc = "fetch"
    /\ periodic.call.pc = "lookup"
    /\ \E d \in Elapsed(periodic) :
          LET call == CallLookup(periodic.call, cache, PeriodicCity)
              p == [periodic EXCEPT !.timer = Attempted(@)]
          IN  periodic' = IF call.pc = "returned"
                          THEN Printed([p EXCEPT !.timer = FetchEnded(@, d)], call)
                          ELSE [p EXCEPT !.call = call]
    /\ cache' = CacheAfterLookup(cache, PeriodicCity)
    /\ UNCHANGED cacheKeys
    /\ UNCHANGED <<threads, thread, city_input, clicks, result_label, labelWriter, labelFrom,
                   uiQueue>>

PeriodicRequest ==
    /\ periodic.pc = "fetch"
    /\ periodic.call.pc = "request"
    /\ \E o \in Outcomes(PeriodicCity), d \in Elapsed(periodic) :
          LET call == CallBody(periodic.call, o)
          IN  /\ periodic' = Printed([periodic EXCEPT !.timer = FetchEnded(@, d)], call)
              /\ cache' = CacheAfterBody(cache, PeriodicCity, call)
              /\ cacheKeys' = KeysAfterBody(cacheKeys, cache, PeriodicCity, call)
    /\ UNCHANGED <<threads, thread, city_input, clicks, result_label, labelWriter, labelFrom,
                   uiQueue>>

\* time.sleep returns: the next iteration of while True
PeriodicWake ==
    /\ periodic.pc = "sleep"
    /\ periodic' = [periodic EXCEPT !.pc = "fetch", !.printed = <<>>, !.sleeping = 0,
                                    !.call = NewCall,
                                    !.timer = Slept(@, periodic.sleeping)]
    /\ UNCHANGED <<cache, cacheKeys, threads, thread, city_input, clicks, result_label,
                   labelWriter, labelFrom, uiQueue>>

----------------------------------------------------------------------------

Init ==
    /\ cache = <<>>
    /\ cacheKeys = <<>>
    /\ threads = << >>
    /\ thread = 0
    /\ city_input = ""
    /\ clicks = 0
    /\ result_label = <<>>
    /\ labelWriter = "none"
    /\ labelFrom = 0
    /\ uiQueue = <<>>
    /\ periodic = NewPeriodic(interval, FALSE)

\* periodic_fetcher alone, started with a short interval and timed
TimedInit ==
    /\ cache = <<>>
    /\ cacheKeys = <<>>
    /\ threads = << >>
    /\ thread = 0
    /\ city_input = ""
    /\ clicks = 0
    /\ result_label = <<>>
    /\ labelWriter = "none"
    /\ labelFrom = 0
    /\ uiQueue = <<>>
    /\ \E secs \in TestIntervals : periodic = NewPeriodic(secs, TRUE)

\* the steps of the worker threads, the periodic thread and the event loop
Run ==
    \/ Deliver
    \/ \E w \in DOMAIN threads : WorkerLookup(w)
    \/ \E w \in DOMAIN threads : WorkerRequest(w)
    \/ PeriodicLookup
    \/ PeriodicRequest
    \/ PeriodicWake

\* the user clicks at any time, overlapping fetches included
Next ==
    \/ /\ clicks < MaxClicks
       /\ \E city \in Inputs(clicks + 1) : (city = "" \/ InFlight < MaxInFlight) /\ Click(city)
    \/ Run

Spec == Init /\ [][Next]_vars

\* the user starts a fetch only when no reply is outstanding
SeqNext ==
    \/ /\ clicks < MaxSeqClicks
       /\ \E city \in Inputs(clicks + 1) : (city = "" \/ InFlight = 0) /\ Click(city)
    \/ Run

SeqSpec == Init /\ [][SeqNext]_vars

\* Scheduling: the event loop keeps running, every started thread keeps
\* being scheduled, and requests.get ends within its timeout
Fairness ==
    /\ WF_vars(Deliver)
    /\ \A w \in 1..MaxClicks : WF_vars(WorkerLookup(w) \/ WorkerRequest(w))
    /\ WF_vars(PeriodicLookup \/ PeriodicRequest \/ PeriodicWake)

FairSpec == Spec /\ Fairness

\* the periodic thread on its own, up to MaxNow
TimedNext ==
    \/ periodic.timer.now <= MaxNow /\ PeriodicLookup
    \/ periodic.timer.now <= MaxNow /\ PeriodicRequest
    \/ periodic.timer.now <= MaxNow /\ PeriodicWake

TimedSpec == TimedInit /\ [][TimedNext]_vars

----------------------------------------------------------------------------
(* Properties *)

\* the entries of a cache, as a set
Entries(c) == { c[i] : i \in 1..Len(c) }

\* this step, no thread issues an HTTP request
NoRequestIssued ==
    /\ \A v \in DOMAIN threads :
          v \in DOMAIN threads' => threads'[v].call.requests = threads[v].call.requests
    /\ periodic'.call.requests <= periodic.call.requests

\* a call looks `city` up in this step while the cache holds it: the call
\* returns the value stored for exactly that key and no request is issued
HitReturnsStored(before, after, city) ==
    (/\ before.pc = "lookup"
     /\ after # before
     /\ \E i \in 1..Len(cache) : cache[i].city = city)
    => /\ after.pc = "returned"
       /\ after.ok
       /\ after.requests = 0
       /\ \E i \in 1..Len(cache) : cache[i].city = city /\ after.data = cache[i].data
       /\ NoRequestIssued

\* C1: a call of fetch_weather for a city that is in the cache, by a
\* foreground worker or by the periodic worker and whatever the other
\* threads are doing, returns the payload stored for that city and issues no
\* HTTP request.
C1_HitReturnsStoredWithoutRequest ==
    [][ /\ \A w \in DOMAIN threads :
             w \in DOMAIN threads' =>
                HitReturnsStored(threads[w].call, threads'[w].call, threads[w].city)
        /\ HitReturnsStored(periodic.call, periodic'.call, PeriodicCity) ]_vars

\* a foreground worker has been served from the cache
C1_Witness ==
    \E w \in DOMAIN threads :
        /\ threads[w].finished
        /\ threads[w].call.ok
        /\ threads[w].call.requests = 0
        /\ threads[w].call.data # NoPayload

\* a call stores its result in this step for a city the full cache does not
\* hold: one old entry goes, the new one comes, the other four stay
StoreEvictsOne(before, after, city) ==
    (/\ before.pc = "request"
     /\ after.pc = "returned"
     /\ after.ok
     /\ Len(cache) = 5
     /\ \A i \in 1..Len(cache) : cache[i].city # city)
    => /\ Len(cache') = 5
       /\ Cardinality(Entries(cache) \ Entries(cache')) = 1
       /\ Entries(cache') \ Entries(cache) = {[city |-> city, data |-> after.data]}
       /\ Cardinality(Entries(cache) \cap Entries(cache')) = 4

\* C2: the cache never holds more than 5 entries nor two entries for one
\* city, and a successful fetch of a city that is not in a cache of 5
\* entries removes exactly one of them and adds the new one, the other 4
\* staying as they were.
C2_AtMostFiveAndEvictsOne ==
    /\ [](/\ Len(cache) <= 5
          /\ \A i, j \in 1..Len(cache) : i # j => cache[i].city # cache[j].city)
    /\ [][ /\ \A w \in DOMAIN threads :
                w \in DOMAIN threads' =>
                   StoreEvictsOne(threads[w].call, threads'[w].call, threads[w].city)
           /\ StoreEvictsOne(periodic.call, periodic'.call, PeriodicCity) ]_vars

\* the cache is full and the city of the periodic worker, fetched in this
\* iteration of its loop, has since been evicted
C2_Witness ==
    /\ Len(cache) = 5
    /\ periodic.pc = "sleep"
    /\ periodic.call.ok
    /\ \A i \in 1..Len(cache) : cache[i].city # PeriodicCity

\* C3: a click with an empty input sets the label to the prompt and does
\* nothing else: no worker is created, the thread handle, the cache, the
\* queued replies and the periodic worker are as before, and no HTTP
\* request is issued.
C3_EmptyInputOnlyPrompts ==
    [][ (clicks' = clicks + 1 /\ city_input' = "")
        => /\ result_label' = <<"Please enter a city name.">>
           /\ threads' = threads
           /\ thread' = thread
           /\ cache' = cache
           /\ uiQueue' = uiQueue
           /\ periodic' = periodic
           /\ NoRequestIssued ]_vars

\* the button has been clicked with an empty input
C3_Witness ==
    /\ clicks > 0
    /\ city_input = ""
    /\ result_label = <<"Please enter a city name.">>
    /\ threads = << >>

\* the calls of fetch_weather in progress or just ended
AllCalls == { threads[w].call : w \in DOMAIN threads } \cup {periodic.call}

\* C4: a call that got a response with a status other than 200 (404 or 203
\* here) returns no payload and fails with a message that contains the
\* status code and the body; a call that issued a request returns a payload
\* only for status 200.
C4_NonOkStatusFailsWithStatusAndBody ==
    \A c \in AllCalls :
        (c.pc = "returned" /\ c.response.kind = "response") =>
            /\ c.response.status_code # 200 =>
                  /\ ~c.ok
                  /\ c.data = <<>>
                  /\ Contains(c.error, <<c.response.text>>)
            /\ c.response.status_code = 404 =>
                  /\ c.response.text = "city not found"
                  /\ Contains(c.error, <<"4", "0", "4">>)
                  /\ Contains(c.error, <<"city not found">>)
            /\ c.response.status_code = 203 => Contains(c.error, <<"2", "0", "3">>)
            /\ c.ok => c.response.status_code = 200 /\ c.data # <<>>

\* a call has ended on a 404 response
C4_Witness ==
    \E c \in AllCalls :
        c.pc = "returned" /\ c.response.status_code = 404 /\ ~c.ok

\* the deliveries of worker w waiting in the event queue of the UI thread
QueuedFrom(w) == { i \in 1..Len(uiQueue) : uiQueue[i].sender = w }

\* C5: a worker that has not finished has emitted nothing; a finished worker
\* has emitted exactly one signal (weather_fetched if the fetch succeeded,
\* error_occurred if it failed), which is delivered to the UI once; and every
\* started worker gets there: its reply is eventually handled by the UI.
C5_ExactlyOneReply ==
    /\ [](\A w \in DOMAIN threads :
            LET t == threads[w]
            IN  /\ ~t.finished =>
                      /\ t.weather_fetched = 0 /\ t.error_occurred = 0
                      /\ QueuedFrom(w) = {}
                /\ t.finished =>
                      /\ t.weather_fetched + t.error_occurred = 1
                      /\ t.weather_fetched = 1 <=> t.call.ok
                      /\ Cardinality(QueuedFrom(w)) = 1
                      /\ \A i \in QueuedFrom(w) :
                            uiQueue[i].signal = IF t.call.ok THEN "weather_fetched"
                                                ELSE "error_occurred")
    /\ [](\A i \in 1..Len(uiQueue) : uiQueue[i].sender \in DOMAIN threads)
    /\ \A w \in 1..MaxClicks : (w \in DOMAIN threads) ~> (w \notin DOMAIN threads)

\* two workers have finished, one with a payload and one with an error
C5_Witness ==
    \E v, w \in DOMAIN threads :
        /\ threads[v].finished /\ threads[v].weather_fetched = 1
        /\ threads[w].finished /\ threads[w].error_occurred = 1

\* C6: the periodic worker is always either fetching or sleeping, it sleeps
\* the same 300 seconds after a failed iteration as after any other, every
\* failed iteration is followed by the start of another call, and under
\* fair scheduling calls of fetch_weather start and end infinitely often.
C6_PeriodicLoopsForever ==
    /\ [](periodic.pc \in {"fetch", "sleep"})
    /\ [](periodic.pc = "sleep" => periodic.sleeping = 300)
    /\ (periodic.pc = "sleep" /\ ~periodic.call.ok)
          ~> (periodic.pc = "fetch" /\ periodic.call.pc = "lookup")
    /\ []<>(periodic.pc = "fetch" /\ periodic.call.pc = "lookup")
    /\ []<>(periodic.call.pc = "returned")

\* the periodic worker sleeps after a failed fetch
C6_Witness ==
    /\ periodic.pc = "sleep"
    /\ ~periodic.call.ok
    /\ periodic.call.requests = 1
    /\ periodic.sleeping = 300

\* C7: a call has issued no request before its body runs, none at all when
\* it was served from the cache, and exactly one when it missed, whether the
\* request got status 200 or failed.
C7_AtMostOneRequestPerCall ==
    \A c \in AllCalls :
        /\ c.requests \in {0, 1}
        /\ c.pc \in {"lookup", "request"} => c.requests = 0
        /\ c.pc = "returned" =>
              /\ c.response.kind = "none" => c.requests = 0 /\ c.ok
              /\ c.response.kind # "none" => c.requests = 1
              /\ ~c.ok => c.requests = 1

\* a call has failed after its one request
C7_Witness ==
    \E c \in AllCalls :
        c.pc = "returned" /\ ~c.ok /\ c.requests = 1 /\ c.response.kind = "timeout"

\* a step of a worker thread or of the periodic thread
BackgroundStep ==
    \/ periodic' # periodic
    \/ \E w \in DOMAIN threads : w \in DOMAIN threads' /\ threads'[w] # threads[w]

\* C8: every setText on result_label runs in the UI thread, and no step of
\* a worker or of the periodic thread changes the label.
C8_LabelWrittenByUiThreadOnly ==
    /\ [](labelWriter \in {"none", "ui"})
    /\ [][BackgroundStep => result_label' = result_label /\ labelWriter' = labelWriter]_vars

\* the label shows the reply of a worker, set by the UI thread
C8_Witness ==
    /\ result_label # <<>>
    /\ result_label[1] \in {"Weather: ", "Error: "}
    /\ labelWriter = "ui"

\* C9: an iteration of the periodic worker has printed nothing while it
\* fetches and exactly one line when it sleeps, the update line with the
\* payload after a success and the error line with the message after a
\* failure; and no step of the periodic worker touches the label, the
\* workers, the thread handle or the queue of the UI thread.
C9_PeriodicPrintsOneLineAndLeavesUi ==
    /\ [](periodic.pc = "fetch" => periodic.printed = <<>>)
    /\ [](periodic.pc = "sleep" =>
            /\ Len(periodic.printed) = 1
            /\ periodic.call.ok =>
                  /\ periodic.printed[1][1] = "Periodic Weather Update: "
                  /\ periodic.call.data[1].main.humidity = 40 =>
                        periodic.printed[1] =
                           <<"Periodic Weather Update: ",
                             "{'weather': [{'description': '", "clear sky",
                             "'}], 'main': {'temp': ", "2", "1", ".", "5",
                             ", 'humidity': ", "4", "0", "}, 'name': '", "Saskatoon", "'}">>
            /\ ~periodic.call.ok =>
                  periodic.printed[1] = <<"Periodic Fetch Error: ">> \o periodic.call.error)
    /\ [][periodic' # periodic =>
            UNCHANGED <<result_label, labelWriter, threads, thread, uiQueue,
                        clicks, city_input>>]_vars

\* the periodic worker has printed an error while the label is still empty
C9_Witness ==
    /\ periodic.pc = "sleep"
    /\ ~periodic.call.ok
    /\ periodic.printed = << <<"Periodic Fetch Error: ", "API Error: ", "4", "0", "4",
                               " - ", "city not found">> >>
    /\ result_label = <<>>

ClearSkyText ==
    <<"Weather: ", "clear sky", "\nTemperature: ", "2", "1", ".", "5",
      "°C\nHumidity: ", "4", "0", "%">>

LightSnowText ==
    <<"Weather: ", "light snow", "\nTemperature: ", "-", "3",
      "°C\nHumidity: ", "8", "5", "%">>

\* C10: when the UI handles weather_fetched the label becomes the summary
\* of the payload's description, temperature and humidity, whatever the
\* rest of the payload: "clear sky", 21.5, 40 gives
\* "Weather: clear sky\nTemperature: 21.5°C\nHumidity: 40%" and "light
\* snow", -3, 85 gives "Weather: light snow\nTemperature: -3°C\nHumidity:
\* 85%"; when it handles error_occurred the label becomes "Error: " and the
\* message.
C10_LabelTexts ==
    [][ (uiQueue # <<>> /\ uiQueue' = Tail(uiQueue)) =>
          LET ev == Head(uiQueue)
          IN  /\ ev.signal = "weather_fetched" =>
                    LET d == ev.arg[1].weather[1].description
                        t == ev.arg[1].main.temp
                        h == ev.arg[1].main.humidity
                    IN  /\ (d = "clear sky" /\ t = [kind |-> "float", n |-> 215] /\ h = 40)
                              => result_label' = ClearSkyText
                        /\ (d = "light snow" /\ t = [kind |-> "int", n |-> -3] /\ h = 85)
                              => result_label' = LightSnowText
                        /\ result_label' \in {ClearSkyText, LightSnowText}
              /\ ev.signal = "error_occurred" =>
                    result_label' = <<"Error: ">> \o ev.arg ]_vars

\* the label shows the summary of the canned payload
C10_Witness == result_label = ClearSkyText

\* the entries of c other than the one of `city`, in their order
Others(c, city) == SelectSeq(c, LAMBDA e : e.city # city)

\* a call looks `city` up in this step while the cache holds it: its entry
\* becomes the most recently used one, the others keep their order
HitRefreshes(before, after, city) ==
    (/\ before.pc = "lookup"
     /\ after # before
     /\ \E i \in 1..Len(cache) : cache[i].city = city)
    => /\ Len(cache') = Len(cache)
       /\ cache'[Len(cache')].city = city
       /\ Others(cache', city) = Others(cache, city)

\* a call stores its result in this step for a city the full cache does not hold
StoresIntoFull(before, after, city) ==
    /\ before.pc = "request"
    /\ after.pc = "returned"
    /\ after.ok
    /\ Len(cache) = 5
    /\ \A i \in 1..Len(cache) : cache[i].city # city

\* ... and the entry that goes is the least recently used one
StoreEvictsLeastRecent(before, after, city) ==
    StoresIntoFull(before, after, city)
    => /\ \A i \in 1..5 : (\A j \in 1..Len(cache') : cache'[j].city # cache[i].city) <=> i = 1
       /\ \A i \in 1..4 : cache'[i] = cache[i + 1]
       /\ cache'[5] = [city |-> city, data |-> after.data]

\* ... and the entry that goes is the one whose key was inserted first
StoreEvictsEarliestInserted(before, after, city) ==
    StoresIntoFull(before, after, city)
    => \A i \in 1..5 :
          (\A j \in 1..Len(cache') : cache'[j].city # cache[i].city)
             => cache[i].city = cacheKeys[1]

\* C11 (as stated): when a new city is stored into a full cache of 5
\* entries, the entry that is evicted is the one inserted earliest among
\* the 5, whichever entries were hit in between.
C11_EvictsEarliestInserted ==
    [][ /\ \A w \in DOMAIN threads :
             w \in DOMAIN threads' =>
                StoreEvictsEarliestInserted(threads[w].call, threads'[w].call,
                                            threads[w].city)
        /\ StoreEvictsEarliestInserted(periodic.call, periodic'.call, PeriodicCity) ]_vars

\* C11 (amended): a hit makes its entry the most recently used one, and
\* when a new city is stored into a full cache of 5 entries the entry that
\* is evicted is the least recently used one, the one whose latest hit or
\* insertion lies furthest back; that is the earliest inserted entry only
\* when no older entry was hit since.
C11_EvictsLeastRecentlyUsed ==
    /\ [](/\ Len(cacheKeys) = Len(cache)
          /\ \A i \in 1..Len(cache) : \E j \in 1..Len(cacheKeys) : cacheKeys[j] = cache[i].city)
    /\ [][ /\ \A w \in DOMAIN threads :
                w \in DOMAIN threads' =>
                   /\ HitRefreshes(threads[w].call, threads'[w].call, threads[w].city)
                   /\ StoreEvictsLeastRecent(threads[w].call, threads'[w].call,
                                             threads[w].city)
           /\ HitRefreshes(periodic.call, periodic'.call, PeriodicCity)
           /\ StoreEvictsLeastRecent(periodic.call, periodic'.call, PeriodicCity) ]_vars

\* the periodic worker has hit the city that was inserted first, a worker
\* has then stored the city typed at the fifth click after its own request,
\* and the cache of 5 still holds the city inserted first
C11_Witness ==
    /\ Len(cache) = 5
    /\ periodic.pc = "sleep" /\ periodic.call.ok /\ periodic.call.requests = 0
    /\ cacheKeys[1] = PeriodicCity
    /\ cache[4].city = PeriodicCity
    /\ 5 \in DOMAIN threads
    /\ threads[5].call.pc = "returned" /\ threads[5].call.requests = 1
    /\ cache[5].city = threads[5].city
    /\ cacheKeys[5] = threads[5].city

\* every entry that is still cached after the step holds the payload it held
EntriesKeepPayload ==
    \A i \in 1..Len(cache) : \A j \in 1..Len(cache') :
        cache'[j].city = cache[i].city => cache'[j].data = cache[i].data

\* an entry leaves the cache only when a new city is stored into a full cache
EntriesLeaveByCapacityOnly ==
    (\E i \in 1..Len(cache) : \A j \in 1..Len(cache') : cache'[j].city # cache[i].city)
    => /\ Len(cache) = 5
       /\ Len(cache') = 5
       /\ \E j \in 1..5 : \A i \in 1..5 : cache[i].city # cache'[j].city

\* the periodic worker starts a cycle while its city is cached: it prints
\* the update line of the payload the cache holds and issues no request
PeriodicCycleReplays ==
    (/\ periodic.pc = "fetch"
     /\ periodic.call.pc = "lookup"
     /\ periodic' # periodic
     /\ \E i \in 1..Len(cache) : cache[i].city = PeriodicCity)
    => /\ periodic'.pc = "sleep"
       /\ periodic'.call.requests = 0
       /\ \E i \in 1..Len(cache) :
             /\ cache[i].city = PeriodicCity
             /\ periodic'.call.data = cache[i].data
             /\ periodic'.printed =
                   << <<"Periodic Weather Update: ">> \o PayloadRepr(cache[i].data[1]) >>

\* C12: cache entries do not expire: an entry keeps its payload for as long
\* as it is cached, whatever the provider answers meanwhile, and leaves the
\* cache only by capacity eviction; a periodic worker that starts a cycle
\* while its city is cached prints the cached payload again and issues no
\* HTTP request.
C12_EntriesNeverExpire ==
    [][EntriesKeepPayload /\ EntriesLeaveByCapacityOnly /\ PeriodicCycleReplays]_vars

\* the periodic worker sleeps after replaying the cached payload of its
\* city, while a worker that asked the provider for the same city has got
\* a different payload
C12_Witness ==
    /\ periodic.pc = "sleep" /\ periodic.call.ok /\ periodic.call.requests = 0
    /\ \E i \in 1..Len(cache) :
          cache[i].city = PeriodicCity /\ cache[i].data = periodic.call.data
    /\ \E w \in DOMAIN threads :
          /\ threads[w].city = PeriodicCity
          /\ threads[w].call.pc = "returned"
          /\ threads[w].call.ok
          /\ threads[w].call.requests = 1
          /\ threads[w].call.data # periodic.call.data

\* a click with a city while an earlier worker has not finished: a second
\* worker is started, and the earlier worker and the queued replies are as
\* they were
OverlappingClickStartsSecondWorker ==
    (/\ clicks' = clicks + 1
     /\ city_input' # ""
     /\ \E v \in DOMAIN threads : ~threads[v].finished)
    => /\ thread' = clicks + 1
       /\ DOMAIN threads' = DOMAIN threads \cup {clicks + 1}
       /\ ~threads'[clicks + 1].finished
       /\ threads'[clicks + 1].city = city_input'
       /\ \A v \in DOMAIN threads : threads'[v] = threads[v]
       /\ uiQueue' = uiQueue

\* C13: a click with a city while an earlier foreground fetch is in flight
\* is not rejected and cancels nothing: a second worker is started beside
\* the first, and under fair scheduling the reply of each of the two is
\* handled by the UI and both workers end; the replies are handled in the
\* order the workers finish, which need not be that of the clicks.
C13_OverlapStartsSecondWorker ==
    /\ [][OverlappingClickStartsSecondWorker]_vars
    /\ \A w \in 1..MaxClicks :
          (DOMAIN threads = 1..MaxClicks) ~> (labelFrom = w)
    /\ (DOMAIN threads = 1..MaxClicks) ~> (threads = << >> /\ uiQueue = <<>>)

\* both workers have been started, both have finished and delivered, and
\* the label shows the reply of the first
C13_Witness ==
    /\ thread = 2
    /\ threads = << >>
    /\ uiQueue = <<>>
    /\ labelFrom = 1
    /\ result_label[1] \in {"Weather: ", "Error: "}

\* the label shows the reply of a worker
ShowsReply ==
    /\ result_label # <<>>
    /\ result_label[1] \in {"Weather: ", "Error: "}

\* C14: a click with a city sets the label to "Fetching weather..." in the
\* step that creates the worker, which has not run yet, and the label stays
\* so while the latest worker is in flight and no reply has been handled;
\* under fair scheduling, every HTTP request ending one way or another, a
\* label that reads "Fetching weather..." is later a weather summary or an
\* "Error: ..." text, and never stays at "Fetching weather..." for good.
C14_FetchingThenReply ==
    /\ [][ (clicks' = clicks + 1 /\ city_input' # "")
           => /\ result_label' = <<"Fetching weather...">>
              /\ threads'[thread'].call.pc = "lookup"
              /\ threads'[thread'].call.requests = 0
              /\ ~threads'[thread'].finished ]_vars
    /\ []((thread \in DOMAIN threads /\ city_input # "" /\ labelFrom = 0)
            => result_label = <<"Fetching weather...">>)
    /\ (result_label = <<"Fetching weather...">>) ~> ShowsReply
    /\ ~<>[](result_label = <<"Fetching weather...">>)

\* the label shows the error of the only worker, once "Fetching weather..."
C14_Witness ==
    /\ clicks = 1
    /\ thread = 1
    /\ labelFrom = 1
    /\ threads = << >>
    /\ result_label = <<"Error: ">> \o TimeoutText

\* C15: the periodic worker fetches first and sleeps afterwards: its first
\* call of fetch_weather begins at time 0, before any sleep; every later
\* call begins exactly one sleep of the interval after the call before it
\* ended; hence with an interval of 1 second and calls of less than half a
\* second the second call begins before 1.5 s, and 2 calls have been made
\* whenever the time is 2.5 s or more.
C15_FetchFirstSleepAfter ==
    /\ [](periodic.timer.attempts = 0 =>
            /\ periodic.timer.now = 0
            /\ periodic.pc = "fetch"
            /\ periodic.call.pc = "lookup")
    /\ [][ periodic'.timer.attempts # periodic.timer.attempts =>
             /\ periodic'.timer.attempts = periodic.timer.attempts + 1
             /\ periodic.timer.now =
                   IF periodic.timer.attempts = 0 THEN 0
                   ELSE periodic.timer.ended + 10 * periodic.interval ]_vars
    /\ [][ (periodic.pc = "sleep" /\ periodic' # periodic) =>
             /\ periodic'.pc = "fetch"
             /\ periodic'.call.pc = "lookup"
             /\ periodic'.timer.now = periodic.timer.now + 10 * periodic.interval
             /\ periodic'.timer.attempts = periodic.timer.attempts ]_vars
    /\ [][ (periodic.interval = 1 /\ periodic.timer.attempts = 1
                                  /\ periodic'.timer.attempts = 2)
           => periodic.timer.now < 15 ]_vars
    /\ []((periodic.interval = 1 /\ periodic.timer.now >= 25)
            => periodic.timer.attempts >= 2)

\* with an interval of 1 second the second call of fetch_weather has been
\* made and has ended, and the time is not yet 2.5 s
C15_Witness ==
    /\ periodic.timer.on
    /\ periodic.interval = 1
    /\ periodic.timer.attempts = 2
    /\ periodic.call.pc = "returned"
    /\ periodic.timer.now <= 25

\* the body of a call raises in this step: the cache and its dict are as before
FailureLeavesCache(before, after) ==
    (before.pc = "request" /\ after.pc = "returned" /\ ~after.ok)
    => /\ after.requests = before.requests + 1
       /\ cache' = cache
       /\ cacheKeys' = cacheKeys

\* a call looks up a city the cache does not hold: it goes on to the body,
\* with no result and no error yet
MissGoesToBody(before, after, city) ==
    (/\ before.pc = "lookup"
     /\ after # before
     /\ \A i \in 1..Len(cache) : cache[i].city # city)
    => /\ after.pc = "request"
       /\ ~after.ok
       /\ after.error = <<>>
       /\ cache' = cache

\* C16: a call of fetch_weather that fails (a response other than 200, a
\* timeout or a connection failure) leaves the cache as it was, entries and
\* order; no entry ever holds an error; and a later call for a city the
\* cache does not hold goes on to a new HTTP request with no error replayed.
C16_FailureLeavesCache ==
    /\ [](\A i \in 1..Len(cache) :
            /\ cache[i].data # <<>>
            /\ cache[i].data[1].name = cache[i].city)
    /\ [][ /\ \A w \in DOMAIN threads :
                w \in DOMAIN threads' =>
                   /\ FailureLeavesCache(threads[w].call, threads'[w].call)
                   /\ MissGoesToBody(threads[w].call, threads'[w].call, threads[w].city)
           /\ FailureLeavesCache(periodic.call, periodic'.call)
           /\ MissGoesToBody(periodic.call, periodic'.call, PeriodicCity) ]_vars

\* a worker's call has failed on a timeout while the cache was full, and the
\* cache is still full and without the worker's city
C16_Witness ==
    /\ Len(cache) = 5
    /\ \E w \in DOMAIN threads :
          /\ threads[w].call.pc = "returned"
          /\ ~threads[w].call.ok
          /\ threads[w].call.response.kind = "timeout"
          /\ \A i \in 1..Len(cache) : cache[i].city # threads[w].city

\* a call that missed returns its payload in this step while the cache holds
\* the city, stored by another thread since the lookup: the call has issued
\* its own request, and the cache keeps the entry it has
LateStoreKeepsEntry(before, after, city) ==
    (/\ before.pc = "request"
     /\ after.pc = "returned"
     /\ after.ok
     /\ \E i \in 1..Len(cache) : cache[i].city = city)
    => /\ after.requests = 1
       /\ after.response.status_code = 200
       /\ cache' = cache

\* C17: lookup and store of one call of fetch_weather are two steps, and
\* other threads run between them: two threads that look up the same
\* uncached city both miss and each issues its own HTTP request; the one
\* that returns second stores nothing, so the cache holds at most one entry
\* for a city and at most 5 entries.
C17_MissesRaceStoreOnce ==
    /\ [](/\ Len(cache) <= 5
          /\ \A city \in Inputs(5) :
                Cardinality({ i \in 1..Len(cache) : cache[i].city = city }) <= 1
          /\ \A c \in AllCalls : c.pc = "request" => c.requests = 0)
    /\ [][ /\ \A w \in DOMAIN threads :
                w \in DOMAIN threads' =>
                   LateStoreKeepsEntry(threads[w].call, threads'[w].call, threads[w].city)
           /\ LateStoreKeepsEntry(periodic.call, periodic'.call, PeriodicCity) ]_vars

\* a foreground worker and the periodic worker have both missed the same
\* city and each has got a payload by its own request; the cache, now of 5
\* entries, holds the city once
C17_Witness ==
    /\ periodic.pc = "sleep" /\ periodic.call.ok /\ periodic.call.requests = 1
    /\ \E w \in DOMAIN threads :
          /\ threads[w].city = PeriodicCity
          /\ threads[w].call.pc = "returned"
          /\ threads[w].call.ok
          /\ threads[w].call.requests = 1
    /\ Len(cache) = 5
    /\ Cardinality({ i \in 1..Len(cache) : cache[i].city = PeriodicCity }) = 1

\* "Weather: <description>\nTemperature: <temp>°C\nHumidity: <humidity>%"
IsSummary(text) ==
    /\ Len(text) >= 7
    /\ text[1] = "Weather: "
    /\ text[3] = "\nTemperature: "
    /\ \E i \in 5..(Len(text) - 2) : text[i] = "°C\nHumidity: "
    /\ text[Len(text)] = "%"

\* "Error: <message>"
IsError(text) == Len(text) >= 2 /\ text[1] = "Error: "

\* C18: the label is always empty, "Please enter a city name.", "Fetching
\* weather...", a "Weather: ..." summary or an "Error: ..." message; it is
\* empty only before the first click, and it is a summary or an error only
\* after a foreground worker has been started.
C18_LabelForms ==
    /\ \/ result_label = <<>>
       \/ result_label = <<"Please enter a city name.">>
       \/ result_label = <<"Fetching weather...">>
       \/ IsSummary(result_label)
       \/ IsError(result_label)
    /\ result_label = <<>> <=> clicks = 0
    /\ (IsSummary(result_label) \/ IsError(result_label)) => (thread >= 1 /\ labelFrom >= 1)

\* the label shows the error of the worker of the first click, handled after
\* a second click with an empty input
C18_Witness ==
    /\ clicks = 2
    /\ thread = 1
    /\ city_input = ""
    /\ result_label = <<"Error: ", "API Error: ", "4", "0", "4", " - ", "city not found">>

====
